---- MODULE Spec2Model ----
(***************************************************************************)
(* Model of the Nepali transliteration engine (src/lib/nepali-converter.ts *)
(* and src/lib/nepali-mapping.ts).                                         *)
(*                                                                         *)
(* A string is a sequence of UTF-16 code units.  An ASCII code unit is the *)
(* one-character string of that character ("k", " ", "\t"); a Devanagari   *)
(* code unit is written with its Unicode name in angle brackets:           *)
(* "<KA>" is DEVANAGARI LETTER KA, "<-AA>" is DEVANAGARI VOWEL SIGN AA,    *)
(* "<VIRAMA>" is DEVANAGARI SIGN VIRAMA (the halant).  Every Devanagari    *)
(* character of the tables is one code unit, so Len is JavaScript's        *)
(* .length.                                                                *)
(***************************************************************************)
EXTENDS Integers, Sequences, FiniteSets, TLC

VARIABLES
    config,          \* this.config of the engine that converts
    word,            \* argument of convertWord
    pc,              \* position of the running call
    scanText,        \* convertAdvanced: its argument text
    i,               \* convertAdvanced: loop index i
    result,          \* convertAdvanced: accumulated result
    lastAdv,         \* convertAdvanced: how far the last iteration advanced i
    ret,             \* value returned by convertWord / convertText
    text,            \* argument of convertText / handleSpaceKey, textarea text
    cursorPosition,  \* argument of handleSpaceKey
    spaceResult,     \* value returned by handleSpaceKey
    heap,            \* configuration objects, by reference
    builderConfig,   \* NepaliConverterBuilder.config (a reference)
    engineConfig,    \* NepaliConverter.config of each engine (a reference)
    snapshots,       \* references returned by getConfig() and held by callers
    typed            \* what the user has keyed into the textarea so far

vars == <<config, word, pc, scanText, i, result, lastAdv, ret, text,
          cursorPosition, spaceResult, heap, builderConfig, engineConfig,
          snapshots, typed>>

----------------------------------------------------------------------------
(* Symbol tables: src/lib/nepali-mapping.ts *)

\* vowels: 16 entries, nepali-mapping.ts lines 11-15
vowels ==
       <<"a">> :> <<"<A>">> @@ <<"a","a">> :> <<"<AA>">>
    @@ <<"i">> :> <<"<I>">> @@ <<"e","e">> :> <<"<II>">>
    @@ <<"i","i">> :> <<"<II>">> @@ <<"u">> :> <<"<U>">>
    @@ <<"u","u">> :> <<"<UU>">> @@ <<"e">> :> <<"<E>">>
    @@ <<"a","i">> :> <<"<AI>">> @@ <<"o">> :> <<"<O>">>
    @@ <<"a","u">> :> <<"<AU>">> @@ <<"A">> :> <<"<AA>">>
    @@ <<"I">> :> <<"<II>">> @@ <<"E">> :> <<"<E>">>
    @@ <<"O">> :> <<"<O>">> @@ <<"U">> :> <<"<UU>">>

\* baseConsonants: 34 entries, nepali-mapping.ts lines 18-26
baseConsonants ==
       <<"k">> :> <<"<KA>">> @@ <<"k","h">> :> <<"<KHA>">>
    @@ <<"g">> :> <<"<GA>">> @@ <<"g","h">> :> <<"<GHA>">>
    @@ <<"n","g">> :> <<"<NGA>">> @@ <<"c","h">> :> <<"<CA>">>
    @@ <<"c","h","h">> :> <<"<CHA>">> @@ <<"j">> :> <<"<JA>">>
    @@ <<"j","h">> :> <<"<JHA>">> @@ <<"y","n">> :> <<"<NYA>">>
    @@ <<"t">> :> <<"<TA>">> @@ <<"t","h">> :> <<"<THA>">>
    @@ <<"d">> :> <<"<DA>">> @@ <<"d","h">> :> <<"<DHA>">>
    @@ <<"n">> :> <<"<NA>">> @@ <<"T">> :> <<"<TTA>">>
    @@ <<"T","h">> :> <<"<TTHA>">> @@ <<"D">> :> <<"<DDA>">>
    @@ <<"D","h">> :> <<"<DDHA>">> @@ <<"N">> :> <<"<NNA>">>
    @@ <<"p">> :> <<"<PA>">> @@ <<"p","h">> :> <<"<PHA>">>
    @@ <<"b">> :> <<"<BA>">> @@ <<"b","h">> :> <<"<BHA>">>
    @@ <<"m">> :> <<"<MA>">> @@ <<"y">> :> <<"<YA>">>
    @@ <<"r">> :> <<"<RA>">> @@ <<"l">> :> <<"<LA>">>
    @@ <<"w">> :> <<"<VA>">> @@ <<"v">> :> <<"<VA>">>
    @@ <<"s","h">> :> <<"<SHA>">> @@ <<"S","h">> :> <<"<SSA>">>
    @@ <<"s">> :> <<"<SA>">> @@ <<"h">> :> <<"<HA>">>

\* halfConsonants: 34 entries, nepali-mapping.ts lines 29-37
halfConsonants ==
       <<"k">> :> <<"<KA>","<VIRAMA>">> @@ <<"k","h">> :> <<"<KHA>","<VIRAMA>">>
    @@ <<"g">> :> <<"<GA>","<VIRAMA>">> @@ <<"g","h">> :> <<"<GHA>","<VIRAMA>">>
    @@ <<"n","g">> :> <<"<NGA>","<VIRAMA>">> @@ <<"c","h">> :> <<"<CA>","<VIRAMA>">>
    @@ <<"c","h","h">> :> <<"<CHA>","<VIRAMA>">> @@ <<"j">> :> <<"<JA>","<VIRAMA>">>
    @@ <<"j","h">> :> <<"<JHA>","<VIRAMA>">> @@ <<"y","n">> :> <<"<NYA>","<VIRAMA>">>
    @@ <<"t">> :> <<"<TA>","<VIRAMA>">> @@ <<"t","h">> :> <<"<THA>","<VIRAMA>">>
    @@ <<"d">> :> <<"<DA>","<VIRAMA>">> @@ <<"d","h">> :> <<"<DHA>","<VIRAMA>">>
    @@ <<"n">> :> <<"<NA>","<VIRAMA>">> @@ <<"T">> :> <<"<TTA>","<VIRAMA>">>
    @@ <<"T","h">> :> <<"<TTHA>","<VIRAMA>">> @@ <<"D">> :> <<"<DDA>","<VIRAMA>">>
    @@ <<"D","h">> :> <<"<DDHA>","<VIRAMA>">> @@ <<"N">> :> <<"<NNA>","<VIRAMA>">>
    @@ <<"p">> :> <<"<PA>","<VIRAMA>">> @@ <<"p","h">> :> <<"<PHA>","<VIRAMA>">>
    @@ <<"b">> :> <<"<BA>","<VIRAMA>">> @@ <<"b","h">> :> <<"<BHA>","<VIRAMA>">>
    @@ <<"m">> :> <<"<MA>","<VIRAMA>">> @@ <<"y">> :> <<"<YA>","<VIRAMA>">>
    @@ <<"r">> :> <<"<RA>","<VIRAMA>">> @@ <<"l">> :> <<"<LA>","<VIRAMA>">>
    @@ <<"w">> :> <<"<VA>","<VIRAMA>">> @@ <<"v">> :> <<"<VA>","<VIRAMA>">>
    @@ <<"s","h">> :> <<"<SHA>","<VIRAMA>">> @@ <<"S","h">> :> <<"<SSA>","<VIRAMA>">>
    @@ <<"s">> :> <<"<SA>","<VIRAMA>">> @@ <<"h">> :> <<"<HA>","<VIRAMA>">>

\* matras: 10 entries, nepali-mapping.ts lines 40-44
matras ==
       <<"a","a">> :> <<"<-AA>">> @@ <<"i">> :> <<"<-I>">>
    @@ <<"e","e">> :> <<"<-II>">> @@ <<"i","i">> :> <<"<-II>">>
    @@ <<"u">> :> <<"<-U>">> @@ <<"u","u">> :> <<"<-UU>">>
    @@ <<"e">> :> <<"<-E>">> @@ <<"a","i">> :> <<"<-AI>">>
    @@ <<"o">> :> <<"<-O>">> @@ <<"a","u">> :> <<"<-AU>">>

\* consonantClusters: 270 entries, nepali-mapping.ts lines 47-94
consonantClusters ==
       <<"k","s","h">> :> <<"<KA>","<VIRAMA>","<SSA>">> @@ <<"k","s","h","a">> :> <<"<KA>","<VIRAMA>","<SSA>">>
    @@ <<"k","s","h","i">> :> <<"<KA>","<VIRAMA>","<SSA>","<-I>">> @@ <<"k","s","h","u">> :> <<"<KA>","<VIRAMA>","<SSA>","<-U>">>
    @@ <<"k","s","h","e">> :> <<"<KA>","<VIRAMA>","<SSA>","<-E>">> @@ <<"k","s","h","o">> :> <<"<KA>","<VIRAMA>","<SSA>","<-O>">>
    @@ <<"t","r">> :> <<"<TA>","<VIRAMA>","<RA>">> @@ <<"t","r","a">> :> <<"<TA>","<VIRAMA>","<RA>">>
    @@ <<"t","r","i">> :> <<"<TA>","<VIRAMA>","<RA>","<-I>">> @@ <<"t","r","u">> :> <<"<TA>","<VIRAMA>","<RA>","<-U>">>
    @@ <<"t","r","e">> :> <<"<TA>","<VIRAMA>","<RA>","<-E>">> @@ <<"t","r","o">> :> <<"<TA>","<VIRAMA>","<RA>","<-O>">>
    @@ <<"j","n","y">> :> <<"<JA>","<VIRAMA>","<NYA>">> @@ <<"j","n","y","a">> :> <<"<JA>","<VIRAMA>","<NYA>">>
    @@ <<"j","n","y","i">> :> <<"<JA>","<VIRAMA>","<NYA>","<-I>">> @@ <<"j","n","y","u">> :> <<"<JA>","<VIRAMA>","<NYA>","<-U>">>
    @@ <<"j","n","y","e">> :> <<"<JA>","<VIRAMA>","<NYA>","<-E>">> @@ <<"j","n","y","o">> :> <<"<JA>","<VIRAMA>","<NYA>","<-O>">>
    @@ <<"k","t">> :> <<"<KA>","<VIRAMA>","<TA>">> @@ <<"k","t","a">> :> <<"<KA>","<VIRAMA>","<TA>">>
    @@ <<"k","t","i">> :> <<"<KA>","<VIRAMA>","<TA>","<-I>">> @@ <<"k","t","u">> :> <<"<KA>","<VIRAMA>","<TA>","<-U>">>
    @@ <<"k","t","e">> :> <<"<KA>","<VIRAMA>","<TA>","<-E>">> @@ <<"k","t","o">> :> <<"<KA>","<VIRAMA>","<TA>","<-O>">>
    @@ <<"s","t">> :> <<"<SA>","<VIRAMA>","<TA>">> @@ <<"s","t","a">> :> <<"<SA>","<VIRAMA>","<TA>">>
    @@ <<"s","t","i">> :> <<"<SA>","<VIRAMA>","<TA>","<-I>">> @@ <<"s","t","u">> :> <<"<SA>","<VIRAMA>","<TA>","<-U>">>
    @@ <<"s","t","e">> :> <<"<SA>","<VIRAMA>","<TA>","<-E>">> @@ <<"s","t","o">> :> <<"<SA>","<VIRAMA>","<TA>","<-O>">>
    @@ <<"s","t","r">> :> <<"<SA>","<VIRAMA>","<TA>","<VIRAMA>","<RA>">> @@ <<"s","t","r","a">> :> <<"<SA>","<VIRAMA>","<TA>","<VIRAMA>","<RA>">>
    @@ <<"s","t","r","i">> :> <<"<SA>","<VIRAMA>","<TA>","<VIRAMA>","<RA>","<-I>">> @@ <<"s","t","r","u">> :> <<"<SA>","<VIRAMA>","<TA>","<VIRAMA>","<RA>","<-U>">>
    @@ <<"s","t","r","e">> :> <<"<SA>","<VIRAMA>","<TA>","<VIRAMA>","<RA>","<-E>">> @@ <<"s","t","r","o">> :> <<"<SA>","<VIRAMA>","<TA>","<VIRAMA>","<RA>","<-O>">>
    @@ <<"n","t">> :> <<"<NA>","<VIRAMA>","<TA>">> @@ <<"n","t","a">> :> <<"<NA>","<VIRAMA>","<TA>">>
    @@ <<"n","t","i">> :> <<"<NA>","<VIRAMA>","<TA>","<-I>">> @@ <<"n","t","u">> :> <<"<NA>","<VIRAMA>","<TA>","<-U>">>
    @@ <<"n","t","e">> :> <<"<NA>","<VIRAMA>","<TA>","<-E>">> @@ <<"n","t","o">> :> <<"<NA>","<VIRAMA>","<TA>","<-O>">>
    @@ <<"n","d">> :> <<"<NA>","<VIRAMA>","<DA>">> @@ <<"n","d","a">> :> <<"<NA>","<VIRAMA>","<DA>">>
    @@ <<"n","d","i">> :> <<"<NA>","<VIRAMA>","<DA>","<-I>">> @@ <<"n","d","u">> :> <<"<NA>","<VIRAMA>","<DA>","<-U>">>
    @@ <<"n","d","e">> :> <<"<NA>","<VIRAMA>","<DA>","<-E>">> @@ <<"n","d","o">> :> <<"<NA>","<VIRAMA>","<DA>","<-O>">>
    @@ <<"m","p">> :> <<"<MA>","<VIRAMA>","<PA>">> @@ <<"m","p","a">> :> <<"<MA>","<VIRAMA>","<PA>">>
    @@ <<"m","p","i">> :> <<"<MA>","<VIRAMA>","<PA>","<-I>">> @@ <<"m","p","u">> :> <<"<MA>","<VIRAMA>","<PA>","<-U>">>
    @@ <<"m","p","e">> :> <<"<MA>","<VIRAMA>","<PA>","<-E>">> @@ <<"m","p","o">> :> <<"<MA>","<VIRAMA>","<PA>","<-O>">>
    @@ <<"m","b">> :> <<"<MA>","<VIRAMA>","<BA>">> @@ <<"m","b","a">> :> <<"<MA>","<VIRAMA>","<BA>">>
    @@ <<"m","b","i">> :> <<"<MA>","<VIRAMA>","<BA>","<-I>">> @@ <<"m","b","u">> :> <<"<MA>","<VIRAMA>","<BA>","<-U>">>
    @@ <<"m","b","e">> :> <<"<MA>","<VIRAMA>","<BA>","<-E>">> @@ <<"m","b","o">> :> <<"<MA>","<VIRAMA>","<BA>","<-O>">>
    @@ <<"n","g">> :> <<"<NGA>","<VIRAMA>","<GA>">> @@ <<"n","g","a">> :> <<"<NGA>","<VIRAMA>","<GA>">>
    @@ <<"n","g","i">> :> <<"<NGA>","<VIRAMA>","<GA>","<-I>">> @@ <<"n","g","u">> :> <<"<NGA>","<VIRAMA>","<GA>","<-U>">>
    @@ <<"n","g","e">> :> <<"<NGA>","<VIRAMA>","<GA>","<-E>">> @@ <<"n","g","o">> :> <<"<NGA>","<VIRAMA>","<GA>","<-O>">>
    @@ <<"c","h","h">> :> <<"<CHA>">> @@ <<"c","h","h","a">> :> <<"<CHA>">>
    @@ <<"c","h","h","i">> :> <<"<CHA>","<-I>">> @@ <<"c","h","h","u">> :> <<"<CHA>","<-U>">>
    @@ <<"c","h","h","e">> :> <<"<CHA>","<-E>">> @@ <<"c","h","h","o">> :> <<"<CHA>","<-O>">>
    @@ <<"s","h","c","h">> :> <<"<SHA>","<VIRAMA>","<CA>">> @@ <<"s","h","c","h","a">> :> <<"<SHA>","<VIRAMA>","<CA>">>
    @@ <<"s","h","c","h","i">> :> <<"<SHA>","<VIRAMA>","<CA>","<-I>">> @@ <<"s","h","c","h","u">> :> <<"<SHA>","<VIRAMA>","<CA>","<-U>">>
    @@ <<"s","h","c","h","e">> :> <<"<SHA>","<VIRAMA>","<CA>","<-E>">> @@ <<"s","h","c","h","o">> :> <<"<SHA>","<VIRAMA>","<CA>","<-O>">>
    @@ <<"s","h","t","h">> :> <<"<SA>","<VIRAMA>","<THA>">> @@ <<"s","h","t","h","a">> :> <<"<SA>","<VIRAMA>","<THA>">>
    @@ <<"s","h","t","h","i">> :> <<"<SA>","<VIRAMA>","<THA>","<-I>">> @@ <<"s","h","t","h","u">> :> <<"<SA>","<VIRAMA>","<THA>","<-U>">>
    @@ <<"s","h","t","h","e">> :> <<"<SA>","<VIRAMA>","<THA>","<-E>">> @@ <<"s","h","t","h","o">> :> <<"<SA>","<VIRAMA>","<THA>","<-O>">>
    @@ <<"s","h","m">> :> <<"<SHA>","<VIRAMA>","<MA>">> @@ <<"s","h","m","a">> :> <<"<SHA>","<VIRAMA>","<MA>">>
    @@ <<"s","h","m","i">> :> <<"<SHA>","<VIRAMA>","<MA>","<-I>">> @@ <<"s","h","m","u">> :> <<"<SHA>","<VIRAMA>","<MA>","<-U>">>
    @@ <<"s","h","m","e">> :> <<"<SHA>","<VIRAMA>","<MA>","<-E>">> @@ <<"s","h","m","o">> :> <<"<SHA>","<VIRAMA>","<MA>","<-O>">>
    @@ <<"s","h","n">> :> <<"<SHA>","<VIRAMA>","<NA>">> @@ <<"s","h","n","a">> :> <<"<SHA>","<VIRAMA>","<NA>">>
    @@ <<"s","h","n","i">> :> <<"<SHA>","<VIRAMA>","<NA>","<-I>">> @@ <<"s","h","n","u">> :> <<"<SHA>","<VIRAMA>","<NA>","<-U>">>
    @@ <<"s","h","n","e">> :> <<"<SHA>","<VIRAMA>","<NA>","<-E>">> @@ <<"s","h","n","o">> :> <<"<SHA>","<VIRAMA>","<NA>","<-O>">>
    @@ <<"s","h","l">> :> <<"<SHA>","<VIRAMA>","<LA>">> @@ <<"s","h","l","a">> :> <<"<SHA>","<VIRAMA>","<LA>">>
    @@ <<"s","h","l","i">> :> <<"<SHA>","<VIRAMA>","<LA>","<-I>">> @@ <<"s","h","l","u">> :> <<"<SHA>","<VIRAMA>","<LA>","<-U>">>
    @@ <<"s","h","l","e">> :> <<"<SHA>","<VIRAMA>","<LA>","<-E>">> @@ <<"s","h","l","o">> :> <<"<SHA>","<VIRAMA>","<LA>","<-O>">>
    @@ <<"s","h","v">> :> <<"<SHA>","<VIRAMA>","<VA>">> @@ <<"s","h","v","a">> :> <<"<SHA>","<VIRAMA>","<VA>">>
    @@ <<"s","h","v","i">> :> <<"<SHA>","<VIRAMA>","<VA>","<-I>">> @@ <<"s","h","v","u">> :> <<"<SHA>","<VIRAMA>","<VA>","<-U>">>
    @@ <<"s","h","v","e">> :> <<"<SHA>","<VIRAMA>","<VA>","<-E>">> @@ <<"s","h","v","o">> :> <<"<SHA>","<VIRAMA>","<VA>","<-O>">>
    @@ <<"r","t","h">> :> <<"<RA>","<VIRAMA>","<THA>">> @@ <<"r","t","h","a">> :> <<"<RA>","<VIRAMA>","<THA>">>
    @@ <<"r","t","h","i">> :> <<"<RA>","<VIRAMA>","<THA>","<-I>">> @@ <<"r","t","h","u">> :> <<"<RA>","<VIRAMA>","<THA>","<-U>">>
    @@ <<"r","t","h","e">> :> <<"<RA>","<VIRAMA>","<THA>","<-E>">> @@ <<"r","t","h","o">> :> <<"<RA>","<VIRAMA>","<THA>","<-O>">>
    @@ <<"r","d","h">> :> <<"<RA>","<VIRAMA>","<DHA>">> @@ <<"r","d","h","a">> :> <<"<RA>","<VIRAMA>","<DHA>">>
    @@ <<"r","d","h","i">> :> <<"<RA>","<VIRAMA>","<DHA>","<-I>">> @@ <<"r","d","h","u">> :> <<"<RA>","<VIRAMA>","<DHA>","<-U>">>
    @@ <<"r","d","h","e">> :> <<"<RA>","<VIRAMA>","<DHA>","<-E>">> @@ <<"r","d","h","o">> :> <<"<RA>","<VIRAMA>","<DHA>","<-O>">>
    @@ <<"r","s","h">> :> <<"<RA>","<VIRAMA>","<SHA>">> @@ <<"r","s","h","a">> :> <<"<RA>","<VIRAMA>","<SHA>">>
    @@ <<"r","s","h","i">> :> <<"<RA>","<VIRAMA>","<SHA>","<-I>">> @@ <<"r","s","h","u">> :> <<"<RA>","<VIRAMA>","<SHA>","<-U>">>
    @@ <<"r","s","h","e">> :> <<"<RA>","<VIRAMA>","<SHA>","<-E>">> @@ <<"r","s","h","o">> :> <<"<RA>","<VIRAMA>","<SHA>","<-O>">>
    @@ <<"r","c","h">> :> <<"<RA>","<VIRAMA>","<CA>">> @@ <<"r","c","h","a">> :> <<"<RA>","<VIRAMA>","<CA>">>
    @@ <<"r","c","h","i">> :> <<"<RA>","<VIRAMA>","<CA>","<-I>">> @@ <<"r","c","h","u">> :> <<"<RA>","<VIRAMA>","<CA>","<-U>">>
    @@ <<"r","c","h","e">> :> <<"<RA>","<VIRAMA>","<CA>","<-E>">> @@ <<"r","c","h","o">> :> <<"<RA>","<VIRAMA>","<CA>","<-O>">>
    @@ <<"r","g","h">> :> <<"<RA>","<VIRAMA>","<GHA>">> @@ <<"r","g","h","a">> :> <<"<RA>","<VIRAMA>","<GHA>">>
    @@ <<"r","g","h","i">> :> <<"<RA>","<VIRAMA>","<GHA>","<-I>">> @@ <<"r","g","h","u">> :> <<"<RA>","<VIRAMA>","<GHA>","<-U>">>
    @@ <<"r","g","h","e">> :> <<"<RA>","<VIRAMA>","<GHA>","<-E>">> @@ <<"r","g","h","o">> :> <<"<RA>","<VIRAMA>","<GHA>","<-O>">>
    @@ <<"r","k","h">> :> <<"<RA>","<VIRAMA>","<KHA>">> @@ <<"r","k","h","a">> :> <<"<RA>","<VIRAMA>","<KHA>">>
    @@ <<"r","k","h","i">> :> <<"<RA>","<VIRAMA>","<KHA>","<-I>">> @@ <<"r","k","h","u">> :> <<"<RA>","<VIRAMA>","<KHA>","<-U>">>
    @@ <<"r","k","h","e">> :> <<"<RA>","<VIRAMA>","<KHA>","<-E>">> @@ <<"r","k","h","o">> :> <<"<RA>","<VIRAMA>","<KHA>","<-O>">>
    @@ <<"r","p","h">> :> <<"<RA>","<VIRAMA>","<PHA>">> @@ <<"r","p","h","a">> :> <<"<RA>","<VIRAMA>","<PHA>">>
    @@ <<"r","p","h","i">> :> <<"<RA>","<VIRAMA>","<PHA>","<-I>">> @@ <<"r","p","h","u">> :> <<"<RA>","<VIRAMA>","<PHA>","<-U>">>
    @@ <<"r","p","h","e">> :> <<"<RA>","<VIRAMA>","<PHA>","<-E>">> @@ <<"r","p","h","o">> :> <<"<RA>","<VIRAMA>","<PHA>","<-O>">>
    @@ <<"r","b","h">> :> <<"<RA>","<VIRAMA>","<BHA>">> @@ <<"r","b","h","a">> :> <<"<RA>","<VIRAMA>","<BHA>">>
    @@ <<"r","b","h","i">> :> <<"<RA>","<VIRAMA>","<BHA>","<-I>">> @@ <<"r","b","h","u">> :> <<"<RA>","<VIRAMA>","<BHA>","<-U>">>
    @@ <<"r","b","h","e">> :> <<"<RA>","<VIRAMA>","<BHA>","<-E>">> @@ <<"r","b","h","o">> :> <<"<RA>","<VIRAMA>","<BHA>","<-O>">>
    @@ <<"r","d">> :> <<"<RA>","<VIRAMA>","<DA>">> @@ <<"r","d","a">> :> <<"<RA>","<VIRAMA>","<DA>">>
    @@ <<"r","d","i">> :> <<"<RA>","<VIRAMA>","<DA>","<-I>">> @@ <<"r","d","u">> :> <<"<RA>","<VIRAMA>","<DA>","<-U>">>
    @@ <<"r","d","e">> :> <<"<RA>","<VIRAMA>","<DA>","<-E>">> @@ <<"r","d","o">> :> <<"<RA>","<VIRAMA>","<DA>","<-O>">>
    @@ <<"r","t">> :> <<"<RA>","<VIRAMA>","<TA>">> @@ <<"r","t","a">> :> <<"<RA>","<VIRAMA>","<TA>">>
    @@ <<"r","t","i">> :> <<"<RA>","<VIRAMA>","<TA>","<-I>">> @@ <<"r","t","u">> :> <<"<RA>","<VIRAMA>","<TA>","<-U>">>
    @@ <<"r","t","e">> :> <<"<RA>","<VIRAMA>","<TA>","<-E>">> @@ <<"r","t","o">> :> <<"<RA>","<VIRAMA>","<TA>","<-O>">>
    @@ <<"r","n">> :> <<"<RA>","<VIRAMA>","<NA>">> @@ <<"r","n","a">> :> <<"<RA>","<VIRAMA>","<NA>">>
    @@ <<"r","n","i">> :> <<"<RA>","<VIRAMA>","<NA>","<-I>">> @@ <<"r","n","u">> :> <<"<RA>","<VIRAMA>","<NA>","<-U>">>
    @@ <<"r","n","e">> :> <<"<RA>","<VIRAMA>","<NA>","<-E>">> @@ <<"r","n","o">> :> <<"<RA>","<VIRAMA>","<NA>","<-O>">>
    @@ <<"r","m">> :> <<"<RA>","<VIRAMA>","<MA>">> @@ <<"r","m","a">> :> <<"<RA>","<VIRAMA>","<MA>">>
    @@ <<"r","m","i">> :> <<"<RA>","<VIRAMA>","<MA>","<-I>">> @@ <<"r","m","u">> :> <<"<RA>","<VIRAMA>","<MA>","<-U>">>
    @@ <<"r","m","e">> :> <<"<RA>","<VIRAMA>","<MA>","<-E>">> @@ <<"r","m","o">> :> <<"<RA>","<VIRAMA>","<MA>","<-O>">>
    @@ <<"r","l">> :> <<"<RA>","<VIRAMA>","<LA>">> @@ <<"r","l","a">> :> <<"<RA>","<VIRAMA>","<LA>">>
    @@ <<"r","l","i">> :> <<"<RA>","<VIRAMA>","<LA>","<-I>">> @@ <<"r","l","u">> :> <<"<RA>","<VIRAMA>","<LA>","<-U>">>
    @@ <<"r","l","e">> :> <<"<RA>","<VIRAMA>","<LA>","<-E>">> @@ <<"r","l","o">> :> <<"<RA>","<VIRAMA>","<LA>","<-O>">>
    @@ <<"r","v">> :> <<"<RA>","<VIRAMA>","<VA>">> @@ <<"r","v","a">> :> <<"<RA>","<VIRAMA>","<VA>">>
    @@ <<"r","v","i">> :> <<"<RA>","<VIRAMA>","<VA>","<-I>">> @@ <<"r","v","u">> :> <<"<RA>","<VIRAMA>","<VA>","<-U>">>
    @@ <<"r","v","e">> :> <<"<RA>","<VIRAMA>","<VA>","<-E>">> @@ <<"r","v","o">> :> <<"<RA>","<VIRAMA>","<VA>","<-O>">>
    @@ <<"r","y">> :> <<"<RA>","<VIRAMA>","<YA>">> @@ <<"r","y","a">> :> <<"<RA>","<VIRAMA>","<YA>">>
    @@ <<"r","y","i">> :> <<"<RA>","<VIRAMA>","<YA>","<-I>">> @@ <<"r","y","u">> :> <<"<RA>","<VIRAMA>","<YA>","<-U>">>
    @@ <<"r","y","e">> :> <<"<RA>","<VIRAMA>","<YA>","<-E>">> @@ <<"r","y","o">> :> <<"<RA>","<VIRAMA>","<YA>","<-O>">>
    @@ <<"l","y">> :> <<"<LA>","<VIRAMA>","<YA>">> @@ <<"l","y","a">> :> <<"<LA>","<VIRAMA>","<YA>">>
    @@ <<"l","y","i">> :> <<"<LA>","<VIRAMA>","<YA>","<-I>">> @@ <<"l","y","u">> :> <<"<LA>","<VIRAMA>","<YA>","<-U>">>
    @@ <<"l","y","e">> :> <<"<LA>","<VIRAMA>","<YA>","<-E>">> @@ <<"l","y","o">> :> <<"<LA>","<VIRAMA>","<YA>","<-O>">>
    @@ <<"n","y">> :> <<"<NA>","<VIRAMA>","<YA>">> @@ <<"n","y","a">> :> <<"<NA>","<VIRAMA>","<YA>">>
    @@ <<"n","y","i">> :> <<"<NA>","<VIRAMA>","<YA>","<-I>">> @@ <<"n","y","u">> :> <<"<NA>","<VIRAMA>","<YA>","<-U>">>
    @@ <<"n","y","e">> :> <<"<NA>","<VIRAMA>","<YA>","<-E>">> @@ <<"n","y","o">> :> <<"<NA>","<VIRAMA>","<YA>","<-O>">>
    @@ <<"m","y">> :> <<"<MA>","<VIRAMA>","<YA>">> @@ <<"m","y","a">> :> <<"<MA>","<VIRAMA>","<YA>">>
    @@ <<"m","y","i">> :> <<"<MA>","<VIRAMA>","<YA>","<-I>">> @@ <<"m","y","u">> :> <<"<MA>","<VIRAMA>","<YA>","<-U>">>
    @@ <<"m","y","e">> :> <<"<MA>","<VIRAMA>","<YA>","<-E>">> @@ <<"m","y","o">> :> <<"<MA>","<VIRAMA>","<YA>","<-O>">>
    @@ <<"t","y">> :> <<"<TA>","<VIRAMA>","<YA>">> @@ <<"t","y","a">> :> <<"<TA>","<VIRAMA>","<YA>">>
    @@ <<"t","y","i">> :> <<"<TA>","<VIRAMA>","<YA>","<-I>">> @@ <<"t","y","u">> :> <<"<TA>","<VIRAMA>","<YA>","<-U>">>
    @@ <<"t","y","e">> :> <<"<TA>","<VIRAMA>","<YA>","<-E>">> @@ <<"t","y","o">> :> <<"<TA>","<VIRAMA>","<YA>","<-O>">>
    @@ <<"d","y">> :> <<"<DA>","<VIRAMA>","<YA>">> @@ <<"d","y","a">> :> <<"<DA>","<VIRAMA>","<YA>">>
    @@ <<"d","y","i">> :> <<"<DA>","<VIRAMA>","<YA>","<-I>">> @@ <<"d","y","u">> :> <<"<DA>","<VIRAMA>","<YA>","<-U>">>
    @@ <<"d","y","e">> :> <<"<DA>","<VIRAMA>","<YA>","<-E>">> @@ <<"d","y","o">> :> <<"<DA>","<VIRAMA>","<YA>","<-O>">>
    @@ <<"p","y">> :> <<"<PA>","<VIRAMA>","<YA>">> @@ <<"p","y","a">> :> <<"<PA>","<VIRAMA>","<YA>">>
    @@ <<"p","y","i">> :> <<"<PA>","<VIRAMA>","<YA>","<-I>">> @@ <<"p","y","u">> :> <<"<PA>","<VIRAMA>","<YA>","<-U>">>
    @@ <<"p","y","e">> :> <<"<PA>","<VIRAMA>","<YA>","<-E>">> @@ <<"p","y","o">> :> <<"<PA>","<VIRAMA>","<YA>","<-O>">>
    @@ <<"b","y">> :> <<"<BA>","<VIRAMA>","<YA>">> @@ <<"b","y","a">> :> <<"<BA>","<VIRAMA>","<YA>">>
    @@ <<"b","y","i">> :> <<"<BA>","<VIRAMA>","<YA>","<-I>">> @@ <<"b","y","u">> :> <<"<BA>","<VIRAMA>","<YA>","<-U>">>
    @@ <<"b","y","e">> :> <<"<BA>","<VIRAMA>","<YA>","<-E>">> @@ <<"b","y","o">> :> <<"<BA>","<VIRAMA>","<YA>","<-O>">>
    @@ <<"k","y">> :> <<"<KA>","<VIRAMA>","<YA>">> @@ <<"k","y","a">> :> <<"<KA>","<VIRAMA>","<YA>">>
    @@ <<"k","y","i">> :> <<"<KA>","<VIRAMA>","<YA>","<-I>">> @@ <<"k","y","u">> :> <<"<KA>","<VIRAMA>","<YA>","<-U>">>
    @@ <<"k","y","e">> :> <<"<KA>","<VIRAMA>","<YA>","<-E>">> @@ <<"k","y","o">> :> <<"<KA>","<VIRAMA>","<YA>","<-O>">>
    @@ <<"g","y">> :> <<"<GA>","<VIRAMA>","<YA>">> @@ <<"g","y","a">> :> <<"<GA>","<VIRAMA>","<YA>">>
    @@ <<"g","y","i">> :> <<"<GA>","<VIRAMA>","<YA>","<-I>">> @@ <<"g","y","u">> :> <<"<GA>","<VIRAMA>","<YA>","<-U>">>
    @@ <<"g","y","e">> :> <<"<GA>","<VIRAMA>","<YA>","<-E>">> @@ <<"g","y","o">> :> <<"<GA>","<VIRAMA>","<YA>","<-O>">>
    @@ <<"h","y">> :> <<"<HA>","<VIRAMA>","<YA>">> @@ <<"h","y","a">> :> <<"<HA>","<VIRAMA>","<YA>">>
    @@ <<"h","y","i">> :> <<"<HA>","<VIRAMA>","<YA>","<-I>">> @@ <<"h","y","u">> :> <<"<HA>","<VIRAMA>","<YA>","<-U>">>
    @@ <<"h","y","e">> :> <<"<HA>","<VIRAMA>","<YA>","<-E>">> @@ <<"h","y","o">> :> <<"<HA>","<VIRAMA>","<YA>","<-O>">>
    @@ <<"s","y">> :> <<"<SA>","<VIRAMA>","<YA>">> @@ <<"s","y","a">> :> <<"<SA>","<VIRAMA>","<YA>">>
    @@ <<"s","y","i">> :> <<"<SA>","<VIRAMA>","<YA>","<-I>">> @@ <<"s","y","u">> :> <<"<SA>","<VIRAMA>","<YA>","<-U>">>
    @@ <<"s","y","e">> :> <<"<SA>","<VIRAMA>","<YA>","<-E>">> @@ <<"s","y","o">> :> <<"<SA>","<VIRAMA>","<YA>","<-O>">>
    @@ <<"s","h","y">> :> <<"<SHA>","<VIRAMA>","<YA>">> @@ <<"s","h","y","a">> :> <<"<SHA>","<VIRAMA>","<YA>">>
    @@ <<"s","h","y","i">> :> <<"<SHA>","<VIRAMA>","<YA>","<-I>">> @@ <<"s","h","y","u">> :> <<"<SHA>","<VIRAMA>","<YA>","<-U>">>
    @@ <<"s","h","y","e">> :> <<"<SHA>","<VIRAMA>","<YA>","<-E>">> @@ <<"s","h","y","o">> :> <<"<SHA>","<VIRAMA>","<YA>","<-O>">>

\* commonWords: 55 entries, nepali-mapping.ts lines 97-153
commonWords ==
       <<"m","e","r","o">> :> <<"<MA>","<-E>","<RA>","<-O>">> @@ <<"n","a","a","m">> :> <<"<NA>","<-AA>","<MA>">>
    @@ <<"r","a","m">> :> <<"<RA>","<-AA>","<MA>">> @@ <<"h","o">> :> <<"<HA>","<-O>">>
    @@ <<"c","h","a">> :> <<"<CHA>">> @@ <<"h","u","n","c","h","a">> :> <<"<HA>","<-U>","<NA>","<VIRAMA>","<CHA>">>
    @@ <<"h","u","n","c","h","h","a">> :> <<"<HA>","<-U>","<NA>","<VIRAMA>","<CHA>">> @@ <<"m","a">> :> <<"<MA>">>
    @@ <<"t","i","m","r","o">> :> <<"<TA>","<-I>","<MA>","<VIRAMA>","<RA>","<-O>">> @@ <<"h","a","m","r","o">> :> <<"<HA>","<-AA>","<MA>","<VIRAMA>","<RA>","<-O>">>
    @@ <<"t","a","p","a","i","n","k","o">> :> <<"<TA>","<PA>","<-AA>","<II>","<ANUSVARA>","<KA>","<-O>">> @@ <<"k","a","s","t","o">> :> <<"<KA>","<SA>","<VIRAMA>","<TA>","<-O>">>
    @@ <<"k","a","t","i">> :> <<"<KA>","<TA>","<-I>">> @@ <<"k","a","h","a">> :> <<"<KA>","<HA>","<-AA>","<CANDRABINDU>">>
    @@ <<"k","i","n","a">> :> <<"<KA>","<-I>","<NA>">> @@ <<"k","i","n","a","a">> :> <<"<KA>","<-I>","<NA>","<-AA>">>
    @@ <<"k","a","s","a","r","i">> :> <<"<KA>","<SA>","<RA>","<-II>">> @@ <<"k","e">> :> <<"<KA>","<-E>">>
    @@ <<"k","o">> :> <<"<KA>","<-O>">> @@ <<"k","a">> :> <<"<KA>","<-AA>">>
    @@ <<"k","i">> :> <<"<KA>","<-II>">> @@ <<"r","a">> :> <<"<RA>">>
    @@ <<"a","n","i">> :> <<"<A>","<NA>","<-II>">> @@ <<"t","a","r","a">> :> <<"<TA>","<RA>">>
    @@ <<"t","y","o">> :> <<"<TA>","<VIRAMA>","<YA>","<-O>">> @@ <<"y","o">> :> <<"<YA>","<-O>">>
    @@ <<"u","n","i","h","a","r","u">> :> <<"<U>","<NA>","<-I>","<HA>","<RA>","<-UU>">> @@ <<"t","i","n","i","h","a","r","u">> :> <<"<TA>","<-I>","<NA>","<-I>","<HA>","<RA>","<-UU>">>
    @@ <<"y","i","n","i">> :> <<"<YA>","<-I>","<NA>","<-II>">> @@ <<"h","a","m","i">> :> <<"<HA>","<-AA>","<MA>","<-II>">>
    @@ <<"h","a","j","u","r">> :> <<"<HA>","<JA>","<-U>","<RA>">> @@ <<"n","a","m","a","s","t","e">> :> <<"<NA>","<MA>","<SA>","<VIRAMA>","<TA>","<-E>">>
    @@ <<"d","h","a","n","y","a","b","a","d">> :> <<"<DHA>","<NA>","<VIRAMA>","<YA>","<VA>","<-AA>","<DA>">> @@ <<"s","u","k","r","i","y","a">> :> <<"<SA>","<-U>","<KA>","<VIRAMA>","<RA>","<-I>","<YA>","<-AA>">>
    @@ <<"b","h","o","l","i">> :> <<"<BHA>","<-O>","<LA>","<-I>">> @@ <<"a","a","j","a">> :> <<"<AA>","<JA>">>
    @@ <<"h","i","j","o">> :> <<"<HA>","<-I>","<JA>","<-O>">> @@ <<"p","a","r","s","i">> :> <<"<PA>","<RA>","<VIRAMA>","<SA>","<-I>">>
    @@ <<"b","h","a","n","e","k","o">> :> <<"<BHA>","<NA>","<-E>","<KA>","<-O>">> @@ <<"b","h","a","n","c","h","a">> :> <<"<BHA>","<NA>","<VIRAMA>","<CHA>">>
    @@ <<"g","a","r","c","h","a">> :> <<"<GA>","<RA>","<VIRAMA>","<CHA>">> @@ <<"g","a","r","c","h","h","a">> :> <<"<GA>","<RA>","<VIRAMA>","<CHA>">>
    @@ <<"h","u","d","a","i","n","a">> :> <<"<HA>","<-U>","<CANDRABINDU>","<DA>","<-AI>","<NA>">> @@ <<"h","u","d","a","i","n">> :> <<"<HA>","<-U>","<CANDRABINDU>","<DA>","<-AI>","<NA>">>
    @@ <<"t","h","i","y","o">> :> <<"<THA>","<-I>","<YA>","<-O>">> @@ <<"t","h","i","y","e","n">> :> <<"<THA>","<-I>","<E>","<NA>">>
    @@ <<"h","u","n","c","h","u">> :> <<"<HA>","<-U>","<CANDRABINDU>","<CHA>","<-U>">> @@ <<"h","u","n","c","h","a","u">> :> <<"<HA>","<-U>","<CANDRABINDU>","<CHA>","<-AU>">>
    @@ <<"h","u","n","c","h","a","n">> :> <<"<HA>","<-U>","<CANDRABINDU>","<CHA>","<NA>","<VIRAMA>">> @@ <<"g","a","r","c","h","u">> :> <<"<GA>","<RA>","<VIRAMA>","<CHA>","<-U>">>
    @@ <<"g","a","r","c","h","a","u">> :> <<"<GA>","<RA>","<VIRAMA>","<CHA>","<-AU>">> @@ <<"g","a","r","c","h","a","n">> :> <<"<GA>","<RA>","<VIRAMA>","<CHA>","<NA>","<VIRAMA>">>
    @@ <<"b","h","a","n","c","h","u">> :> <<"<BHA>","<NA>","<VIRAMA>","<CHA>","<-U>">> @@ <<"b","h","a","n","c","h","a","u">> :> <<"<BHA>","<NA>","<VIRAMA>","<CHA>","<-AU>">>
    @@ <<"b","h","a","n","c","h","a","n">> :> <<"<BHA>","<NA>","<VIRAMA>","<CHA>","<NA>","<VIRAMA>">>

\* getMapping(): later spreads override earlier ones (f @@ g prefers f)
mapping == commonWords @@ consonantClusters @@ baseConsonants @@ vowels

\* table[key] is truthy: the key is an own property (every value is non-empty)
Has(table, key) == key \in DOMAIN table

----------------------------------------------------------------------------
(* JavaScript string primitives *)

Min(a, b) == IF a < b THEN a ELSE b
Max(a, b) == IF a > b THEN a ELSE b

\* String.prototype.substring(start, end), 0-based, arguments clamped
substring(s, start, end) ==
    LET a == Max(0, Min(start, Len(s)))
        b == Max(0, Min(end, Len(s)))
    IN  SubSeq(s, Min(a, b) + 1, Max(a, b))

\* the white space String.prototype.trim() removes and \s matches (ASCII part)
WhiteSpace == {" ", "\t", "\n", "\r", "\f"}

RECURSIVE trimStart(_)
trimStart(s) ==
    IF s # <<>> /\ Head(s) \in WhiteSpace THEN trimStart(Tail(s)) ELSE s

RECURSIVE trimEnd(_)
trimEnd(s) ==
    IF s # <<>> /\ s[Len(s)] \in WhiteSpace
    THEN trimEnd(SubSeq(s, 1, Len(s) - 1)) ELSE s

trim(s) == trimEnd(trimStart(s))

UpperCase == <<"A","B","C","D","E","F","G","H","I","J","K","L","M",
               "N","O","P","Q","R","S","T","U","V","W","X","Y","Z">>
LowerCase == <<"a","b","c","d","e","f","g","h","i","j","k","l","m",
               "n","o","p","q","r","s","t","u","v","w","x","y","z">>

Range(s) == {s[n] : n \in DOMAIN s}

toLowerCaseChar(c) ==
    IF c \in Range(UpperCase)
    THEN LowerCase[CHOOSE n \in DOMAIN UpperCase : UpperCase[n] = c]
    ELSE c

\* String.prototype.toLowerCase()
toLowerCase(s) == [n \in DOMAIN s |-> toLowerCaseChar(s[n])]

\* /[a-zA-Z]/
Letters == Range(UpperCase) \cup Range(LowerCase)
Digits == {"0","1","2","3","4","5","6","7","8","9"}
\* /\w/
WordChars == Letters \cup Digits \cup {"_"}

----------------------------------------------------------------------------
(* NepaliConverter: word conversion *)

\* /^[kghcjtdnpbmyrlwvsh]$/i
ConsonantLetters ==
    {"k","g","h","c","j","t","d","n","p","b","m","y","r","l","w","v","s"}
\* /^[aeiou]$/i
VowelLetters == {"a","e","i","o","u"}

isConsonantChar(char) ==
    Has(baseConsonants, <<char>>) \/ toLowerCaseChar(char) \in ConsonantLetters

isVowelChar(char) ==
    Has(vowels, <<char>>) \/ toLowerCaseChar(char) \in VowelLetters

\* Unknown character - preserve it
dropUnknown(singleChar) == <<>>

preserveUnknown(singleChar) == <<singleChar>>

\* the guard of the four-character try left out
fitsOrFour(t, idx, n) == n = 4 \/ idx + n <= Len(t)

\* i + n <= text.length: a substring of n characters starts at idx
fits(t, idx, n) == idx + n <= Len(t)

\* One iteration of the while loop of convertAdvanced at index idx (0-based):
\* what it appends to result and how far it advances i.
ScanStep(t, idx) ==
    LET len       == Len(t)
        fourChar  == substring(t, idx, idx + 4)
        threeChar == substring(t, idx, idx + 3)
        twoChar   == substring(t, idx, idx + 2)
        match4 == fits(t, idx, 4)
                  /\ (Has(consonantClusters, fourChar) \/ Has(mapping, fourChar))
        match3 == ~match4 /\ fits(t, idx, 3)
                  /\ (Has(consonantClusters, threeChar) \/ Has(mapping, threeChar))
        try2   == ~match4 /\ ~match3 /\ fits(t, idx, 2)
        singleChar  == t[idx + 1]
        hasNext     == idx + 1 < len
        nextChar    == t[idx + 2]
        hasNextTwo  == idx + 2 < len
        nextTwoChar == substring(t, idx + 1, idx + 3)
        single ==
            IF Has(vowels, <<singleChar>>)
            THEN [emit |-> vowels[<<singleChar>>], adv |-> 1]
            ELSE IF Has(baseConsonants, <<singleChar>>)
            THEN IF hasNext /\ isConsonantChar(nextChar) /\ ~isVowelChar(nextChar)
                 THEN IF hasNextTwo /\ Has(matras, nextTwoChar)
                      THEN [emit |-> baseConsonants[<<singleChar>>] \o matras[nextTwoChar],
                            adv |-> 3]
                      ELSE IF Has(matras, <<nextChar>>)
                      THEN [emit |-> baseConsonants[<<singleChar>>] \o matras[<<nextChar>>],
                            adv |-> 2]
                      ELSE IF Has(halfConsonants, <<singleChar>>)
                      THEN [emit |-> halfConsonants[<<singleChar>>], adv |-> 1]
                      ELSE [emit |-> baseConsonants[<<singleChar>>], adv |-> 1]
                 ELSE IF hasNext /\ Has(matras, <<nextChar>>)
                 THEN [emit |-> baseConsonants[<<singleChar>>] \o matras[<<nextChar>>],
                       adv |-> 2]
                 ELSE IF hasNextTwo /\ Has(matras, nextTwoChar)
                 THEN [emit |-> baseConsonants[<<singleChar>>] \o matras[nextTwoChar],
                       adv |-> 3]
                 ELSE [emit |-> baseConsonants[<<singleChar>>], adv |-> 1]
            ELSE [emit |-> preserveUnknown(singleChar), adv |-> 1]
    IN  IF match4
        THEN [emit |-> IF Has(consonantClusters, fourChar)
                       THEN consonantClusters[fourChar] ELSE mapping[fourChar],
              adv |-> 4]
        ELSE IF match3
        THEN [emit |-> IF Has(consonantClusters, threeChar)
                       THEN consonantClusters[threeChar] ELSE mapping[threeChar],
              adv |-> 3]
        ELSE IF try2 /\ Has(consonantClusters, twoChar)
        THEN [emit |-> consonantClusters[twoChar], adv |-> 2]
        ELSE IF try2 /\ Has(mapping, twoChar)
        THEN [emit |-> mapping[twoChar], adv |-> 2]
        ELSE IF try2 /\ Has(baseConsonants, <<twoChar[1]>>)
                     /\ Has(baseConsonants, <<twoChar[2]>>)
                     /\ Has(halfConsonants, <<twoChar[1]>>)
        THEN [emit |-> halfConsonants[<<twoChar[1]>>] \o baseConsonants[<<twoChar[2]>>],
              adv |-> 2]
        ELSE single

\* the while loop of convertAdvanced from index idx with result acc
RECURSIVE scanFrom(_, _, _)
scanFrom(t, idx, acc) ==
    IF idx < Len(t)
    THEN LET s == ScanStep(t, idx) IN scanFrom(t, idx + s.adv, acc \o s.emit)
    ELSE acc

convertAdvanced(t) == IF t = <<>> THEN <<>> ELSE scanFrom(t, 0, <<>>)

\* convertWord up to the choice between the exception table and the scan
cleanWordOf(w) == toLowerCase(trim(w))

returnsEarly(w) == w = <<>> \/ Len(trim(w)) = 0

useCommonWordInverted(cfg, w) ==
    ~cfg.enableCommonWords /\ Has(commonWords, cleanWordOf(w))

useCommonWord(cfg, w) ==
    cfg.enableCommonWords /\ Has(commonWords, cleanWordOf(w))

convertWord(cfg, w) ==
    IF returnsEarly(w) THEN w
    ELSE IF useCommonWord(cfg, w) THEN commonWords[cleanWordOf(w)]
    ELSE convertAdvanced(cleanWordOf(w))

----------------------------------------------------------------------------
(* NepaliConverter: text conversion *)

\* /[.,!?;:()\[\]{}'"]/
Punctuation == {".", ",", "!", "?", ";", ":", "(", ")", "[", "]", "{", "}", "'", "\""}

\* the for loop of splitText from 1-based position n, with the words pushed so
\* far and the currentWord being collected
RECURSIVE splitFrom(_, _, _, _)
splitFrom(t, n, words, currentWord) ==
    IF n > Len(t)
    THEN IF currentWord # <<>> THEN Append(words, currentWord) ELSE words
    ELSE IF t[n] = " " \/ t[n] \in Punctuation
    THEN splitFrom(t, n + 1,
                   (IF currentWord # <<>> THEN Append(words, currentWord) ELSE words)
                       \o << <<t[n]>> >>,
                   <<>>)
    ELSE splitFrom(t, n + 1, words, currentWord \o <<t[n]>>)

splitText(t) == splitFrom(t, 1, <<>>, <<>>)

\* Array.prototype.join('')
RECURSIVE join(_)
join(ws) == IF ws = <<>> THEN <<>> ELSE Head(ws) \o join(Tail(ws))

\* the callback of words.map in convertText
convertToken(cfg, w) ==
    IF \E n \in DOMAIN w : w[n] \in Letters THEN convertWord(cfg, w) ELSE w

convertText(cfg, t) ==
    IF t = <<>> \/ Len(trim(t)) = 0 THEN t
    ELSE LET words == splitText(t)
         IN  join([n \in DOMAIN words |-> convertToken(cfg, words[n])])

----------------------------------------------------------------------------
(* NepaliConverter: the space key *)

\* s.match(/(\w+)\s*$/): a match starting at 0-based index p is a non-empty run
\* of \w from p followed by \s only up to the end of s
wordRunEnd(s, p) ==
    CHOOSE q \in p..Len(s) :
        /\ \A n \in (p + 1)..q : s[n] \in WordChars
        /\ q = Len(s) \/ s[q + 1] \notin WordChars

matchesAt(s, p) ==
    LET q == wordRunEnd(s, p)
    IN  q > p /\ \A n \in (q + 1)..Len(s) : s[n] \in WhiteSpace

\* the match is the leftmost one; its group 1 is the greedy \w+
hasLastWordMatch(s) == \E p \in 0..(Len(s) - 1) : matchesAt(s, p)

lastWordMatch1(s) ==
    LET p == CHOOSE p \in 0..(Len(s) - 1) :
                 matchesAt(s, p) /\ \A r \in 0..(p - 1) : ~matchesAt(s, r)
    IN  SubSeq(s, p + 1, wordRunEnd(s, p))

\* String.prototype.indexOf(sub): the first occurrence instead of the last
indexOf(s, sub) ==
    LET at == {k \in 0..(Len(s) - Len(sub)) : SubSeq(s, k + 1, k + Len(sub)) = sub}
    IN  IF at = {} THEN -1 ELSE CHOOSE k \in at : \A m \in at : k <= m

\* String.prototype.lastIndexOf(sub), 0-based, -1 when sub does not occur
lastIndexOf(s, sub) ==
    LET at == {k \in 0..(Len(s) - Len(sub)) : SubSeq(s, k + 1, k + Len(sub)) = sub}
    IN  IF at = {} THEN -1 ELSE CHOOSE k \in at : \A m \in at : m <= k

\* autoConvertOnSpace is off, with the space inserted all the same
spaceKeyDisabledInserts(t, cursor) ==
    [convertedText |-> t \o <<" ">>, newCursorPosition |-> cursor + 1]

\* autoConvertOnSpace is off
spaceKeyDisabled(t, cursor) ==
    [convertedText |-> t, newCursorPosition |-> cursor]

\* the branch of a found last word
spaceKeyWord(cfg, beforeCursor, afterCursor) ==
    LET lastWord      == lastWordMatch1(beforeCursor)
        wordStart     == lastIndexOf(beforeCursor, lastWord)
        beforeWord    == substring(beforeCursor, 0, wordStart)
        convertedWord == convertWord(cfg, lastWord)
    IN  [convertedText |-> beforeWord \o convertedWord \o <<" ">> \o afterCursor,
         newCursorPosition |-> Len(beforeWord) + Len(convertedWord) + 1]

\* If no word found, just add space
spaceKeyNoWord(t, cursor) ==
    [convertedText |-> t \o <<" ">>, newCursorPosition |-> cursor + 1]

handleSpaceKey(cfg, t, cursor) ==
    IF ~cfg.autoConvertOnSpace
    THEN spaceKeyDisabled(t, cursor)
    ELSE LET beforeCursor == substring(t, 0, cursor)
             afterCursor  == substring(t, cursor, Len(t))
         IN  IF hasLastWordMatch(beforeCursor)
             THEN spaceKeyWord(cfg, beforeCursor, afterCursor)
             ELSE spaceKeyNoWord(t, cursor)

----------------------------------------------------------------------------
(* Configuration: NepaliConverterConfig *)

Configs ==
    [autoConvertOnSpace : BOOLEAN, caseSensitive : BOOLEAN,
     preservePunctuation : BOOLEAN, enableCommonWords : BOOLEAN]

\* the field initializer of NepaliConverterBuilder.config
DefaultConfig ==
    [autoConvertOnSpace |-> TRUE, caseSensitive |-> FALSE,
     preservePunctuation |-> TRUE, enableCommonWords |-> TRUE]

----------------------------------------------------------------------------
(* Bounds and input sets *)

MaxWordLen == 3
MaxTextLen == 4
MaxSpaceLen == 4
MaxObjects == 3
MaxEngines == 2
MaxTyped == 5

Strings(alphabet, n) == UNION {[1..k -> alphabet] : k \in 0..n}

toUpperCaseChar(c) ==
    IF c \in Range(LowerCase)
    THEN UpperCase[CHOOSE n \in DOMAIN LowerCase : LowerCase[n] = c]
    ELSE c

\* a table key as a caller may type it: as is, capitalised, in upper case,
\* surrounded by white space
Typed(w) ==
    {w, <<toUpperCaseChar(w[1])>> \o Tail(w),
     [n \in DOMAIN w |-> toUpperCaseChar(w[n])],
     <<" ">> \o w \o <<"\t">>}

TableKeys ==
    DOMAIN vowels \cup DOMAIN baseConsonants \cup DOMAIN matras
        \cup DOMAIN consonantClusters \cup DOMAIN commonWords

ScanAlphabet == {"k", "s", "h", "a", "i", "T", "x", "1", " "}
OtherAlphabet == {"x", "X", "1", "-", "_", " ", "\t"}

InputWords ==
    Strings(ScanAlphabet, MaxWordLen) \cup Strings(OtherAlphabet, MaxWordLen)
        \cup UNION {Typed(w) : w \in TableKeys}

TextAlphabet == {"r", "a", "m", "K", "1", ".", " ", "\n"}
DigitStrings == {<<"1">>, <<"4", "2">>}

InputTexts ==
    Strings(TextAlphabet, MaxTextLen)
        \cup {w \o d : w \in DOMAIN commonWords \cup DOMAIN consonantClusters,
                       d \in DigitStrings}
        \cup {d \o w : w \in DOMAIN commonWords, d \in DigitStrings}
        \cup {w \o <<" ">> \o v : w \in {<<"m","e","r","o">>, <<"R","a","m">>},
                                  v \in DOMAIN commonWords}

SpaceAlphabet == {"r", "a", "1", ".", " ", "\n", "<KA>"}

InputSpaceTexts == Strings(SpaceAlphabet, MaxSpaceLen)

Engines == 1..MaxEngines

----------------------------------------------------------------------------
(* Calls *)

Idle == "idle"
NoResult == [convertedText |-> <<>>, newCursorPosition |-> 0]

callVars == <<config, word, pc, scanText, i, result, lastAdv, ret, text,
              cursorPosition, spaceResult, typed>>
heapVars == <<heap, builderConfig, engineConfig, snapshots>>

InitHeap ==
    /\ heap = <<DefaultConfig>>
    /\ builderConfig = 1
    /\ engineConfig = [e \in Engines |-> 0]
    /\ snapshots = {}

InitCall(p) ==
    /\ config \in Configs
    /\ pc = p
    /\ scanText = <<>>
    /\ i = 0
    /\ result = <<>>
    /\ lastAdv = 0
    /\ ret = <<>>
    /\ spaceResult = NoResult
    /\ typed = <<>>

\* convertWord(word), as far as its return or its call of convertAdvanced
ConvertWordReturnInput ==
    /\ pc = "convertWord"
    /\ returnsEarly(word)
    /\ ret' = word
    /\ pc' = "done"
    /\ UNCHANGED <<config, word, scanText, i, result, lastAdv, text,
                   cursorPosition, spaceResult>>
    /\ UNCHANGED <<heapVars, typed>>

ConvertWordCommon ==
    /\ pc = "convertWord"
    /\ ~returnsEarly(word)
    /\ useCommonWord(config, word)
    /\ ret' = commonWords[cleanWordOf(word)]
    /\ pc' = "done"
    /\ UNCHANGED <<config, word, scanText, i, result, lastAdv, text,
                   cursorPosition, spaceResult>>
    /\ UNCHANGED <<heapVars, typed>>

ConvertWordAdvanced ==
    /\ pc = "convertWord"
    /\ ~returnsEarly(word)
    /\ ~useCommonWord(config, word)
    /\ scanText' = cleanWordOf(word)
    /\ i' = 0
    /\ result' = <<>>
    /\ pc' = "scan"
    /\ UNCHANGED <<config, word, lastAdv, ret, text, cursorPosition, spaceResult>>
    /\ UNCHANGED <<heapVars, typed>>

\* one iteration of the while loop of convertAdvanced
ScanIterate ==
    /\ pc = "scan"
    /\ i < Len(scanText)
    /\ LET s == ScanStep(scanText, i)
       IN  /\ result' = result \o s.emit
           /\ i' = i + s.adv
           /\ lastAdv' = s.adv
    /\ UNCHANGED <<config, word, pc, scanText, ret, text, cursorPosition,
                   spaceResult>>
    /\ UNCHANGED <<heapVars, typed>>

\* the loop ends; convertAdvanced and convertWord return result
ScanReturn ==
    /\ pc = "scan"
    /\ ~(i < Len(scanText))
    /\ ret' = result
    /\ pc' = "done"
    /\ UNCHANGED <<config, word, scanText, i, result, lastAdv, text,
                   cursorPosition, spaceResult>>
    /\ UNCHANGED <<heapVars, typed>>

ConvertText ==
    /\ pc = "convertText"
    /\ ret' = convertText(config, text)
    /\ pc' = "done"
    /\ UNCHANGED <<config, word, scanText, i, result, lastAdv, text,
                   cursorPosition, spaceResult>>
    /\ UNCHANGED <<heapVars, typed>>

HandleSpaceKey ==
    /\ pc = "handleSpaceKey"
    /\ spaceResult' = handleSpaceKey(config, text, cursorPosition)
    /\ pc' = "done"
    /\ UNCHANGED <<config, word, scanText, i, result, lastAdv, ret, text,
                   cursorPosition>>
    /\ UNCHANGED <<heapVars, typed>>

\* Spec: convertWord on every input word, under every configuration
Init ==
    /\ InitCall("convertWord")
    /\ word \in InputWords
    /\ text = <<>>
    /\ cursorPosition = 0
    /\ InitHeap

Next ==
    \/ ConvertWordReturnInput
    \/ ConvertWordCommon
    \/ ConvertWordAdvanced
    \/ ScanIterate
    \/ ScanReturn

Spec == Init /\ [][Next]_vars

\* SpecScan: the same calls, run to completion: convertWord is synchronous
\* code, so a call that can take a step takes it
SpecScan == Init /\ [][Next]_vars /\ WF_vars(Next)

\* SpecText: convertText on every input text, under every configuration
InitText ==
    /\ InitCall("convertText")
    /\ word = <<>>
    /\ text \in InputTexts
    /\ cursorPosition = 0
    /\ InitHeap

NextText == ConvertText

SpecText == InitText /\ [][NextText]_vars

\* SpecSpace: handleSpaceKey on every text and cursor, under every configuration
InitSpace ==
    /\ InitCall("handleSpaceKey")
    /\ word = <<>>
    /\ text \in InputSpaceTexts
    /\ cursorPosition \in 0..Len(text)
    /\ InitHeap

NextSpace == HandleSpaceKey

SpecSpace == InitSpace /\ [][NextSpace]_vars

----------------------------------------------------------------------------
(* NepaliTextArea: the textarea that types into the engine *)

\* the keys the user presses, other than the space key
EditorAlphabet == {"r", "a", "m", "1", ".", "-"}

\* the converter of the component: built with autoConvertOnSpace,
\* preservePunctuation and commonWords on, caseSensitive off
componentConfig ==
    [autoConvertOnSpace |-> TRUE, caseSensitive |-> FALSE,
     preservePunctuation |-> TRUE, enableCommonWords |-> TRUE]

\* a key other than space: the browser inserts it at the caret and
\* handleChange stores the textarea's value and selectionStart
HandleChange(c) ==
    /\ pc = "editor"
    /\ Len(typed) < MaxTyped
    /\ text' = SubSeq(text, 1, cursorPosition) \o <<c>>
                    \o SubSeq(text, cursorPosition + 1, Len(text))
    /\ cursorPosition' = cursorPosition + 1
    /\ typed' = Append(typed, c)
    /\ UNCHANGED <<config, word, pc, scanText, i, result, lastAdv, ret,
                   spaceResult>>
    /\ UNCHANGED heapVars

\* the space key: handleKeyDown prevents the default, calls handleSpaceKey
\* with the caret, stores convertedText and (in its timeout callback) moves
\* the caret to newCursorPosition
HandleKeyDown ==
    /\ pc = "editor"
    /\ Len(typed) < MaxTyped
    /\ LET r == handleSpaceKey(config, text, cursorPosition)
       IN  /\ spaceResult' = r
           /\ text' = r.convertedText
           /\ cursorPosition' = r.newCursorPosition
    /\ typed' = Append(typed, " ")
    /\ UNCHANGED <<config, word, pc, scanText, i, result, lastAdv, ret>>
    /\ UNCHANGED heapVars

\* SpecEditor: typing into an empty textarea
InitEditor ==
    /\ config = componentConfig
    /\ pc = "editor"
    /\ word = <<>>
    /\ scanText = <<>>
    /\ i = 0
    /\ result = <<>>
    /\ lastAdv = 0
    /\ ret = <<>>
    /\ text = <<>>
    /\ cursorPosition = 0
    /\ spaceResult = NoResult
    /\ typed = <<>>
    /\ InitHeap

NextEditor ==
    \/ \E c \in EditorAlphabet : HandleChange(c)
    \/ HandleKeyDown

SpecEditor == InitEditor /\ [][NextEditor]_vars

----------------------------------------------------------------------------
(* NepaliConverterBuilder and the engines' configuration objects *)

Flags == {"autoConvertOnSpace", "caseSensitive", "preservePunctuation",
          "enableCommonWords"}

\* Partial<NepaliConverterConfig>: some of the flags, each with a value
Partials == UNION {[fs -> BOOLEAN] : fs \in SUBSET Flags}

\* { ...a, ...b }
spread(a, b) == [f \in Flags |-> IF f \in DOMAIN b THEN b[f] ELSE a[f]]

\* this.config.<flag> = enabled, on the object the builder holds
builderSet(flag, enabled) ==
    /\ heap' = [heap EXCEPT ![builderConfig][flag] = enabled]
    /\ UNCHANGED <<builderConfig, engineConfig, snapshots>>
    /\ UNCHANGED callVars

WithAutoConvertOnSpace ==
    /\ pc = Idle
    /\ \E enabled \in BOOLEAN : builderSet("autoConvertOnSpace", enabled)

WithCaseSensitive ==
    /\ pc = Idle
    /\ \E enabled \in BOOLEAN : builderSet("caseSensitive", enabled)

WithPreservePunctuation ==
    /\ pc = Idle
    /\ \E enabled \in BOOLEAN : builderSet("preservePunctuation", enabled)

WithCommonWords ==
    /\ pc = Idle
    /\ \E enabled \in BOOLEAN : builderSet("enableCommonWords", enabled)

\* the reference the constructor stores for the object build() passes it
constructorConfig(passed) == passed

\* build(): new NepaliConverter(this.config)
Build(e) ==
    /\ pc = Idle
    /\ engineConfig[e] = 0
    /\ engineConfig' = [engineConfig EXCEPT ![e] = constructorConfig(builderConfig)]
    /\ UNCHANGED <<heap, builderConfig, snapshots>>
    /\ UNCHANGED callVars

\* NepaliConverterBuilder.getConfig(): { ...this.config }, a new object
BuilderGetConfig ==
    /\ pc = Idle
    /\ Len(heap) < MaxObjects
    /\ heap' = Append(heap, heap[builderConfig])
    /\ snapshots' = snapshots \cup {Len(heap) + 1}
    /\ UNCHANGED <<builderConfig, engineConfig>>
    /\ UNCHANGED callVars

\* NepaliConverter.getConfig(): { ...this.config }, a new object
EngineGetConfig(e) ==
    /\ pc = Idle
    /\ engineConfig[e] # 0
    /\ Len(heap) < MaxObjects
    /\ heap' = Append(heap, heap[engineConfig[e]])
    /\ snapshots' = snapshots \cup {Len(heap) + 1}
    /\ UNCHANGED <<builderConfig, engineConfig>>
    /\ UNCHANGED callVars

\* the caller assigns to a field of an object a getConfig() returned
MutateSnapshot(r) ==
    /\ pc = Idle
    /\ r \in snapshots
    /\ \E f \in Flags, enabled \in BOOLEAN :
           heap' = [heap EXCEPT ![r][f] = enabled]
    /\ UNCHANGED <<builderConfig, engineConfig, snapshots>>
    /\ UNCHANGED callVars

\* updateConfig(config): this.config = { ...this.config, ...config }
UpdateConfig(e, partial) ==
    /\ pc = Idle
    /\ engineConfig[e] # 0
    /\ Len(heap) < MaxObjects
    /\ heap' = Append(heap, spread(heap[engineConfig[e]], partial))
    /\ engineConfig' = [engineConfig EXCEPT ![e] = Len(heap) + 1]
    /\ UNCHANGED <<builderConfig, snapshots>>
    /\ UNCHANGED callVars

\* SpecConfig: a builder, the engines built from it and their callers
InitConfig ==
    /\ config = DefaultConfig
    /\ pc = Idle
    /\ word = <<>>
    /\ scanText = <<>>
    /\ i = 0
    /\ result = <<>>
    /\ lastAdv = 0
    /\ ret = <<>>
    /\ text = <<>>
    /\ cursorPosition = 0
    /\ spaceResult = NoResult
    /\ typed = <<>>
    /\ InitHeap

NextConfig ==
    \/ WithAutoConvertOnSpace
    \/ WithCaseSensitive
    \/ WithPreservePunctuation
    \/ WithCommonWords
    \/ \E e \in Engines : Build(e)
    \/ BuilderGetConfig
    \/ \E e \in Engines : EngineGetConfig(e)
    \/ \E r \in 1..MaxObjects : MutateSnapshot(r)
    \/ \E e \in Engines, partial \in Partials : UpdateConfig(e, partial)

SpecConfig == InitConfig /\ [][NextConfig]_vars

\* the four flags engine e reads
engineFlags(e) == heap[engineConfig[e]]

----------------------------------------------------------------------------
(* Properties *)

\* every Devanagari code unit the tables can emit
Devanagari ==
    UNION {UNION {Range(t[k]) : k \in DOMAIN t} :
               t \in {vowels, baseConsonants, halfConsonants, matras,
                      consonantClusters, commonWords}}

\* punctuation, spaces, other white space, digits, symbols
IsNonAlphabetic(c) == c \notin Letters \cup Devanagari

NonAlphabeticOf(s) == SelectSeq(s, IsNonAlphabetic)

\* C1: when convertText has returned, the non-alphabetic characters of its
\* result are those of the input text, in the same order and multiplicity.
C1_NonAlphabeticPreserved ==
    pc = "done" => NonAlphabeticOf(ret) = NonAlphabeticOf(text)

\* the characters that occur in the keys of the vowel and consonant tables
AlphabetChars ==
    UNION {Range(k) : k \in DOMAIN vowels \cup DOMAIN baseConsonants}

OutsideAlphabets(w) == Range(w) \cap AlphabetChars = {}

\* C2 as stated: a word made only of characters outside the vowel and
\* consonant alphabets is returned by convertWord exactly, under every
\* configuration.
C2_OutsideAlphabetsUnchanged ==
    (pc = "done" /\ OutsideAlphabets(word)) => ret = word

NoUpperCase(w) == Range(w) \cap Range(UpperCase) = {}

NoOuterWhiteSpace(w) ==
    w = <<>> \/ (w[1] \notin WhiteSpace /\ w[Len(w)] \notin WhiteSpace)

OnlyWhiteSpace(w) == Range(w) \subseteq WhiteSpace

\* C2 amended: a word made only of characters outside the vowel and consonant
\* alphabets, with no upper-case letter, that is all white space or has no
\* leading or trailing white space, is returned by convertWord exactly, under
\* every configuration.
C2_LowerTrimmedOutsideAlphabetsUnchanged ==
    (/\ pc = "done"
     /\ OutsideAlphabets(word)
     /\ NoUpperCase(word)
     /\ OnlyWhiteSpace(word) \/ NoOuterWhiteSpace(word))
        => ret = word

\* a word of digits, symbols and unmapped lower-case letters went through the
\* scan and came back unchanged
C2_Witness ==
    /\ pc = "done"
    /\ OutsideAlphabets(word)
    /\ NoUpperCase(word)
    /\ NoOuterWhiteSpace(word)
    /\ Len(word) >= 2
    /\ scanText = word
    /\ i = Len(word)
    /\ ret = word

\* C3: with whole-word exceptions enabled, a word whose trimmed, lower-cased
\* form is a key of commonWords converts to that key's value.
C3_ExceptionWins ==
    (/\ pc = "done"
     /\ config.enableCommonWords
     /\ toLowerCase(trim(word)) \in DOMAIN commonWords)
        => ret = commonWords[toLowerCase(trim(word))]

\* an exception key typed with white space or capitals, whose composition
\* would have given something else than the exception's value
C3_Witness ==
    /\ pc = "done"
    /\ config.enableCommonWords
    /\ toLowerCase(trim(word)) \in DOMAIN commonWords
    /\ word \notin DOMAIN commonWords
    /\ convertAdvanced(toLowerCase(trim(word))) # commonWords[toLowerCase(trim(word))]
    /\ ret = commonWords[toLowerCase(trim(word))]

\* what C4 expects of convertWord: lower-casing only when caseSensitive is off
convertWordCaseAware(cfg, w) ==
    IF w = <<>> \/ Len(trim(w)) = 0 THEN w
    ELSE LET c == IF cfg.caseSensitive THEN trim(w) ELSE toLowerCase(trim(w))
         IN  IF cfg.enableCommonWords /\ Has(commonWords, c)
             THEN commonWords[c]
             ELSE convertAdvanced(c)

\* C4: convertWord lower-cases its input only when caseSensitive is off; with
\* caseSensitive on, the word is matched in its original case.
C4_CaseSensitiveKeepsCase ==
    pc = "done" => ret = convertWordCaseAware(config, word)

\* C5 as stated: with autoConvertOnSpace off, handleSpaceKey returns the text
\* unchanged and the cursor position plus one.
C5_DisabledAdvancesCursor ==
    (pc = "done" /\ ~config.autoConvertOnSpace)
        => spaceResult = [convertedText |-> text,
                          newCursorPosition |-> cursorPosition + 1]

\* C5 amended: with autoConvertOnSpace off, handleSpaceKey returns the text
\* unchanged and the cursor position unchanged.
C5_DisabledReturnsInput ==
    (pc = "done" /\ ~config.autoConvertOnSpace)
        => spaceResult = [convertedText |-> text,
                          newCursorPosition |-> cursorPosition]

\* the flag is off and a word that would convert ends at the cursor
C5_Witness ==
    /\ pc = "done"
    /\ ~config.autoConvertOnSpace
    /\ cursorPosition >= 2
    /\ SubSeq(text, cursorPosition - 1, cursorPosition) = <<"r", "a">>
    /\ spaceResult.convertedText = text
    /\ spaceResult.newCursorPosition = cursorPosition

\* 0-based start of the maximal run of word characters that ends at cursor
runStart(t, cursor) ==
    CHOOSE p \in 0..cursor :
        /\ \A n \in (p + 1)..cursor : t[n] \in WordChars
        /\ p = 0 \/ t[p] \notin WordChars

\* C6: with autoConvertOnSpace on and a word character just before the
\* cursor, handleSpaceKey returns pre + convertWord(run) + " " + rest and the
\* cursor Len(pre) + Len(convertWord(run)) + 1, run being the maximal run of
\* word characters ending at the cursor, pre the text before it and rest the
\* text from the cursor on.
C6_RunBeforeCursorConverted ==
    (/\ pc = "done"
     /\ config.autoConvertOnSpace
     /\ cursorPosition > 0
     /\ text[cursorPosition] \in WordChars)
        => LET p    == runStart(text, cursorPosition)
               pre  == SubSeq(text, 1, p)
               run  == SubSeq(text, p + 1, cursorPosition)
               rest == SubSeq(text, cursorPosition + 1, Len(text))
               conv == convertWord(config, run)
           IN  spaceResult =
                   [convertedText |-> pre \o conv \o <<" ">> \o rest,
                    newCursorPosition |-> Len(pre) + Len(conv) + 1]

\* a run in the middle of the text, with text before and after it, that also
\* occurs earlier in the text, was converted to something else
C6_Witness ==
    /\ pc = "done"
    /\ config.autoConvertOnSpace
    /\ cursorPosition > 0
    /\ cursorPosition < Len(text)
    /\ text[cursorPosition] \in WordChars
    /\ LET p   == runStart(text, cursorPosition)
           run == SubSeq(text, p + 1, cursorPosition)
       IN  /\ p > 0
           /\ SubSeq(text, 1, Len(run)) = run
           /\ convertWord(config, run) # run
           /\ spaceResult.newCursorPosition = p + Len(convertWord(config, run)) + 1

\* C7: with autoConvertOnSpace on and no word character just before the
\* cursor, handleSpaceKey returns the text followed by one space and the
\* cursor position plus one.
C7_NoRunAppendsSpace ==
    (/\ pc = "done"
     /\ config.autoConvertOnSpace
     /\ cursorPosition = 0 \/ text[cursorPosition] \notin WordChars)
        => spaceResult = [convertedText |-> text \o <<" ">>,
                          newCursorPosition |-> cursorPosition + 1]

\* the keys of consonantClusters that start at 0-based index idx of t
clusterKeysAt(t, idx) ==
    {k \in DOMAIN consonantClusters :
         idx + Len(k) <= Len(t) /\ SubSeq(t, idx + 1, idx + Len(k)) = k}

longestOf(keys) == CHOOSE k \in keys : \A m \in keys : Len(m) <= Len(k)

\* C8: at every position of the scan where keys of consonantClusters start,
\* the iteration consumes the longest of them and emits its value.
C8_LongestClusterKeyWins ==
    [][(pc = "scan" /\ i < Len(scanText) /\ clusterKeysAt(scanText, i) # {})
           => LET k == longestOf(clusterKeysAt(scanText, i))
              IN  i' = i + Len(k) /\ result' = result \o consonantClusters[k]]_vars

\* the tokens of C9: maximal runs of letters, and single other characters
RECURSIVE tokensFrom(_, _, _, _)
tokensFrom(t, n, tokens, run) ==
    IF n > Len(t)
    THEN IF run # <<>> THEN Append(tokens, run) ELSE tokens
    ELSE IF t[n] \in Letters
    THEN tokensFrom(t, n + 1, tokens, Append(run, t[n]))
    ELSE tokensFrom(t, n + 1,
                    (IF run # <<>> THEN Append(tokens, run) ELSE tokens)
                        \o << <<t[n]>> >>,
                    <<>>)

tokenwise(cfg, t) ==
    LET tokens == tokensFrom(t, 1, <<>>, <<>>)
    IN  join([n \in DOMAIN tokens |->
                  IF tokens[n][1] \in Letters
                  THEN convertWord(cfg, tokens[n]) ELSE tokens[n]])

\* C9: convertText(t) is the concatenation, token by token, of convertWord of
\* each maximal run of letters and of every other character unchanged.
C9_TokenwiseConversion ==
    pc = "done" => ret = tokenwise(config, text)

\* C10: the flags of a built engine change only in a step that is that
\* engine's own updateConfig.
C10_EngineOwnsConfig ==
    [][\A e \in Engines :
           (engineConfig[e] # 0 /\ engineFlags(e)' # engineFlags(e))
               => \E partial \in Partials : UpdateConfig(e, partial)]_vars

\* the scan is inside its word: 0 <= i <= length, and the last iteration
\* advanced i by at most 4
scanInBounds ==
    pc \in {"scan", "done"} => (i \in 0..Len(scanText) /\ lastAdv \in 0..4)

\* an iteration advances i by 1 to 4, stays inside the word, appends to result
\* and raises no error (the scan goes on or is ready to return)
scanAdvances ==
    (pc = "scan" /\ i < Len(scanText))
        => /\ pc' = "scan"
           /\ i' - i \in 1..4
           /\ i' <= Len(scanText)
           /\ lastAdv' = i' - i
           /\ Len(result') >= Len(result)
           /\ SubSeq(result', 1, Len(result)) = result

\* the scan returns only with every character consumed
scanEndsAtLength ==
    (pc = "scan" /\ ~(i < Len(scanText)))
        => (i = Len(scanText) /\ pc' = "done" /\ ret' = result)

\* C11: every iteration of the scan advances i by at least 1 and at most 4
\* without passing the end of the word, the loop ends with i equal to the
\* word length, and every call of convertWord returns.
C11_ScanTerminates ==
    /\ []scanInBounds
    /\ [][scanAdvances /\ scanEndsAtLength]_vars
    /\ <>(pc = "done")

\* a word of at least five characters whose scan took a step of 4 and a step
\* of 1 and has returned at the end of the word
C11_Witness ==
    /\ pc = "done"
    /\ Len(scanText) >= 5
    /\ i = Len(scanText)
    /\ lastAdv = 1
    /\ Has(consonantClusters, SubSeq(scanText, 1, 4))
    /\ ret = result

\* a key of consonantClusters or mapping of 2 to 4 characters starts at idx
tableMatchAt(t, idx) ==
    \E n \in 2..4 :
        /\ idx + n <= Len(t)
        /\ \/ Has(consonantClusters, SubSeq(t, idx + 1, idx + n))
           \/ Has(mapping, SubSeq(t, idx + 1, idx + n))

\* C12: in single-character resolution of a consonant, when the two
\* characters after it form a vowel-sign key, the iteration emits the base
\* consonant with that two-character vowel sign and advances i by 3.
C12_LongerVowelSignWins ==
    [][(/\ pc = "scan"
        /\ i + 2 < Len(scanText)
        /\ ~tableMatchAt(scanText, i)
        /\ Has(baseConsonants, <<scanText[i + 1]>>)
        /\ Has(matras, SubSeq(scanText, i + 2, i + 3)))
           => /\ i' = i + 3
              /\ result' = result \o baseConsonants[<<scanText[i + 1]>>]
                                  \o matras[SubSeq(scanText, i + 2, i + 3)]]_vars

\* the user typed non-empty words without spaces, each followed by one press
\* of the space key
typedWordsThenSpace(t) ==
    /\ Len(t) >= 2
    /\ t[1] # " "
    /\ t[Len(t)] = " "
    /\ \A n \in 1..(Len(t) - 1) : ~(t[n] = " " /\ t[n + 1] = " ")

\* C13: after words typed at the end of an empty textarea, each followed by
\* the space key, the text is convertText of the words joined by single
\* spaces, followed by one space, and the cursor is at its end.
C13_TypingAgreesWithBatch ==
    (pc = "editor" /\ typedWordsThenSpace(typed))
        => /\ text = convertText(config, SubSeq(typed, 1, Len(typed) - 1)) \o <<" ">>
           /\ cursorPosition = Len(text)

\* C14: with autoConvertOnSpace on, the cursor handleSpaceKey returns lies in
\* the returned text right after the inserted space, and the returned text
\* from there on is the input text from the original cursor on.
C14_CursorAfterInsertedSpace ==
    (pc = "done" /\ config.autoConvertOnSpace)
        => LET t == spaceResult.convertedText
               n == spaceResult.newCursorPosition
           IN  /\ n \in 1..Len(t)
               /\ t[n] = " "
               /\ SubSeq(t, n + 1, Len(t))
                      = SubSeq(text, cursorPosition + 1, Len(text))

====
